---- MODULE Spec2Model ----
(***************************************************************************)
(* A model of nvidia-xconfig's multiple_screens.c: the operations that     *)
(* rewrite the X configuration's Screen, Device, Monitor and Adjacency     *)
(* lists (enable_all_gpus, enable/disable_separate_x_screens,              *)
(* only_one_screen), the Xinerama flag setter and the orchestrator         *)
(* apply_multi_screen_options.                                             *)
(*                                                                         *)
(* Linked lists are sequences of records in list order; a record's address *)
(* is its ptr field, and a reference to a record is that address.  Strings *)
(* are records [name, num, suffix]: the text name<num> followed by suffix  *)
(* copies of " (2nd)".  A BusID string "PCI:b:s:f" is the tuple <<b,s,f>>, *)
(* a malformed one a tuple of another length, a NULL one the empty tuple.  *)
(***************************************************************************)
EXTENDS Integers, Sequences, FiniteSets, TLC

VARIABLES
    screens,      \* config->screens
    devices,      \* config->devices
    monitors,     \* config->monitors
    adjacencies,  \* layout->adjacencies
    flags,        \* config->flags
    last,         \* history: the last operation, its inputs, result and the document before it
    before,       \* history: the operation before the last one, and a summary of the document before it
    nops,         \* number of operations run so far
    pc,           \* apply_multi_screen_options: position
    op,           \* apply_multi_screen_options: the Options
    ran,          \* apply_multi_screen_options: the operations called so far, in order
    ret           \* apply_multi_screen_options: the value returned

vars == <<screens, devices, monitors, adjacencies, flags, last, before, nops, pc, op, ran, ret>>

(***************************************************************************)
(* Bounds of the model.                                                    *)
(***************************************************************************)
MaxScreens == 2     \* Screen sections of an initial document
MaxDevices == 2     \* Device sections of an initial document
MaxMonitors == 2    \* Monitor sections of an initial document
MaxGpus == 2        \* GPUs the nvidia-cfg library reports
MaxBus == 2         \* PCI buses GPUs sit on
MaxOps == 2         \* operations in one behaviour
MaxApplyScreens == 1  \* Screen, Device and Monitor sections of a document handed to apply_multi_screen_options
MaxFindGpus == 3     \* GPUs, and PCI buses, of the enumerations find_devices() is checked on

NULL == 0

(***************************************************************************)
(* Strings.                                                                *)
(***************************************************************************)
Str(name, num, suffix) == [name |-> name, num |-> num, suffix |-> suffix]

NullStr == Str("", 0, 0)

\* nvstrcat(s, " (2nd)", NULL)
nvstrcat_2nd(s) == [s EXCEPT !.suffix = @ + 1]

NoBusId == <<>>

\* snprintf(busid, 32, "PCI:%d:%d:0", bus, slot)
snprintf_busid(bus, slot) == <<bus, slot, 0>>

\* xconfigParsePciBusString(busid, &bus, &slot, &func)
xconfigParsePciBusString(busid) ==
    IF Len(busid) = 3
    THEN [ok |-> TRUE, bus |-> busid[1], slot |-> busid[2], func |-> busid[3]]
    ELSE [ok |-> FALSE, bus |-> 0, slot |-> 0, func |-> 0]

(***************************************************************************)
(* Lists of records.                                                       *)
(***************************************************************************)
Range(s) == {s[i] : i \in 1..Len(s)}

PtrsOf(list) == {list[i].ptr : i \in 1..Len(list)}

Live(list, p) == p \in PtrsOf(list)

IndexOfPtr(list, p) == CHOOSE i \in 1..Len(list) : list[i].ptr = p

Deref(list, p) == list[IndexOfPtr(list, p)]

\* record->next = after->next; after->next = record
InsertAfter(list, i, record) ==
    SubSeq(list, 1, i) \o <<record>> \o SubSeq(list, i + 1, Len(list))

\* nvalloc(): an address no live record has
nvalloc(used) == CHOOSE p \in 1..(Cardinality(used) + 1) :
                    p \notin used /\ \A q \in 1..(p - 1) : q \in used

Doc(s, d, m, a) == [screens |-> s, devices |-> d, monitors |-> m, adjacencies |-> a]

(***************************************************************************)
(* find_devices(): the nvidia-cfg library as seen by one call.  An env is  *)
(* what the library answers: lib (dlopen and the required symbols          *)
(* succeed), ok (nvCfgGetDevices succeeds), devs (the GPUs it reports),    *)
(* primary (the positions nvCfgIsPrimaryDevice reports as primary, empty   *)
(* when the symbol is missing), fail (the position at which a per-device   *)
(* query fails, 0 for none).                                               *)
(***************************************************************************)
NoDevices == [null |-> TRUE, devices |-> <<>>]

Devices(arr) == [null |-> FALSE, devices |-> arr]

Gpu(bus) == [bus |-> bus, slot |-> 0, name |-> Str("GPU", bus, 0)]

GpuSeqs == UNION {{[k \in 1..n |-> Gpu(f[k])] :
                      f \in {g \in [1..n -> 1..MaxBus] :
                                \A a, b \in 1..n : a # b => g[a] # g[b]}} :
                  n \in 0..MaxGpus}

Envs ==
    {[lib |-> FALSE, ok |-> FALSE, devs |-> <<>>, primary |-> {}, fail |-> 0],
     [lib |-> TRUE, ok |-> FALSE, devs |-> <<>>, primary |-> {}, fail |-> 0]}
    \cup UNION {{[lib |-> TRUE, ok |-> TRUE, devs |-> d, primary |-> {}, fail |-> f] :
                    f \in 0..Len(d)} : d \in GpuSeqs}
    \cup UNION {{[lib |-> TRUE, ok |-> TRUE, devs |-> d, primary |-> {k}, fail |-> 0] :
                    k \in 1..Len(d)} : d \in GpuSeqs}

\* mutant: nvCfgIsPrimaryDevice is not asked
RECURSIVE find_devices_loop_noswap(_, _, _)
find_devices_loop_noswap(env, arr, i) ==
    IF i > Len(env.devs) THEN Devices(arr)
    ELSE IF env.fail = i THEN NoDevices
    ELSE find_devices_loop_noswap(env, [arr EXCEPT ![i] = env.devs[i]], i + 1)

RECURSIVE find_devices_loop(_, _, _)
find_devices_loop(env, arr, i) ==
    IF i > Len(env.devs) THEN Devices(arr)
    ELSE IF env.fail = i THEN NoDevices
    ELSE LET a1 == [arr EXCEPT ![i] = env.devs[i]]
             a2 == IF i # 1 /\ i \in env.primary
                   THEN [a1 EXCEPT ![1] = a1[i], ![i] = a1[1]]
                   ELSE a1
         IN find_devices_loop(env, a2, i + 1)

\* mutant: the count == 0 check is missing
find_devices_nozero(env) ==
    IF ~env.lib THEN NoDevices
    ELSE IF ~env.ok THEN NoDevices
    ELSE find_devices_loop(env, [k \in 1..Len(env.devs) |-> Gpu(0)], 1)

find_devices(env) ==
    IF ~env.lib THEN NoDevices
    ELSE IF ~env.ok THEN NoDevices
    ELSE IF Len(env.devs) = 0 THEN NoDevices
    ELSE find_devices_loop(env, [k \in 1..Len(env.devs) |-> Gpu(0)], 1)

\* how the enumeration went: which call failed, if any
EnumKind(env) ==
    IF ~env.lib THEN "lib"
    ELSE IF ~env.ok THEN "getdevices"
    ELSE IF Len(env.devs) = 0 THEN "zero"
    ELSE IF env.fail # 0 THEN "query"
    ELSE "ok"

(***************************************************************************)
(* Shared routines.                                                        *)
(***************************************************************************)
\* xconfigFindScreen(ident, config->screens): the first Screen so named
xconfigFindScreen(ident, scrs) ==
    IF \E i \in 1..Len(scrs) : scrs[i].identifier = ident
    THEN scrs[CHOOSE i \in 1..Len(scrs) :
                 /\ scrs[i].identifier = ident
                 /\ \A j \in 1..(i - 1) : scrs[j].identifier # ident].ptr
    ELSE NULL

\* mutant: the numbering starts at 1
create_adjacencies_from1(scrs) ==
    [k \in 1..Len(scrs) |->
        [scrnum |-> k, screen_name |-> scrs[k].identifier, screen |-> scrs[k].ptr]]

create_adjacencies(scrs) ==
    [k \in 1..Len(scrs) |->
        [scrnum |-> k - 1, screen_name |-> scrs[k].identifier, screen |-> scrs[k].ptr]]

\* mutant: only the first Screen is looked at
free_unused_devices_first(devs, scrs) ==
    LET found(device) == Len(scrs) > 0 /\ device.ptr = scrs[1].device
    IN SelectSeq(devs, found)

free_unused_devices(devs, scrs) ==
    LET found(device) == \E i \in 1..Len(scrs) : device.ptr = scrs[i].device
    IN SelectSeq(devs, found)

\* mutant: no Monitor section is freed
free_unused_monitors_none(mons, scrs) == mons

free_unused_monitors(mons, scrs) ==
    LET found(monitor) == \E i \in 1..Len(scrs) : monitor.ptr = scrs[i].monitor
    IN SelectSeq(mons, found)

\* the result of an operation: its return value, the document it leaves,
\* how its call of find_devices() went ("none": no call) and what that
\* returned, and whether it dereferenced a freed Screen
Result(ok, D, enum, inv, uaf) ==
    [ok |-> ok, doc |-> D, consulted |-> enum # "none", enum |-> enum,
     inv |-> inv, uaf |-> uaf]

(***************************************************************************)
(* clone_device(), clone_screen()                                          *)
(***************************************************************************)
\* mutant: the BusID is not copied
clone_device_nobusid(devs, p0) ==
    LET i == IndexOfPtr(devs, p0)
        device0 == devs[i]
        device == [ptr |-> nvalloc(PtrsOf(devs)),
                   identifier |-> nvstrcat_2nd(device0.identifier),
                   busid |-> NoBusId,
                   board |-> device0.board,
                   screen |-> 1,
                   chipid |-> -1, chiprev |-> -1, irq |-> -1]
    IN InsertAfter([devs EXCEPT ![i].screen = 0], i, device)

\* mutant: the chip id, chip revision and IRQ are copied with the rest
clone_device_keepids(devs, p0) ==
    LET i == IndexOfPtr(devs, p0)
        device0 == devs[i]
        device == [ptr |-> nvalloc(PtrsOf(devs)),
                   identifier |-> nvstrcat_2nd(device0.identifier),
                   busid |-> device0.busid,
                   board |-> device0.board,
                   screen |-> 1,
                   chipid |-> device0.chipid, chiprev |-> device0.chiprev,
                   irq |-> device0.irq]
    IN InsertAfter([devs EXCEPT ![i].screen = 0], i, device)

clone_device(devs, p0) ==
    LET i == IndexOfPtr(devs, p0)
        device0 == devs[i]
        device == [ptr |-> nvalloc(PtrsOf(devs)),
                   identifier |-> nvstrcat_2nd(device0.identifier),
                   busid |-> device0.busid,
                   board |-> device0.board,
                   screen |-> 1,
                   chipid |-> -1, chiprev |-> -1, irq |-> -1]
    IN InsertAfter([devs EXCEPT ![i].screen = 0], i, device)

\* mutant: the clone's Device is not linked into config->devices
clone_screen_unlinked(D, p0) ==
    LET i == IndexOfPtr(D.screens, p0)
        screen0 == D.screens[i]
        devs == clone_device(D.devices, screen0.device)
        device == devs[IndexOfPtr(D.devices, screen0.device) + 1]
        screen == [ptr |-> nvalloc(PtrsOf(D.screens)),
                   identifier |-> nvstrcat_2nd(screen0.identifier),
                   device |-> device.ptr,
                   device_name |-> device.identifier,
                   monitor |-> screen0.monitor]
    IN [D EXCEPT !.screens = InsertAfter(D.screens, i, screen)]

clone_screen(D, p0) ==
    LET i == IndexOfPtr(D.screens, p0)
        screen0 == D.screens[i]
        devs == clone_device(D.devices, screen0.device)
        device == devs[IndexOfPtr(D.devices, screen0.device) + 1]
        screen == [ptr |-> nvalloc(PtrsOf(D.screens)),
                   identifier |-> nvstrcat_2nd(screen0.identifier),
                   device |-> device.ptr,
                   device_name |-> device.identifier,
                   monitor |-> screen0.monitor]
    IN [D EXCEPT !.devices = devs,
                 !.screens = InsertAfter(D.screens, i, screen)]

(***************************************************************************)
(* xconfigGenerateAddScreen(): appends a Monitor, a Device and a Screen    *)
(* numbered count.                                                         *)
(***************************************************************************)
xconfigGenerateAddScreen(D, bus, slot, boardname, count) ==
    LET monitor == [ptr |-> nvalloc(PtrsOf(D.monitors)),
                    identifier |-> Str("Monitor", count, 0)]
        device == [ptr |-> nvalloc(PtrsOf(D.devices)),
                   identifier |-> Str("Device", count, 0),
                   busid |-> snprintf_busid(bus, slot),
                   board |-> boardname,
                   screen |-> -1,
                   chipid |-> -1, chiprev |-> -1, irq |-> -1]
        screen == [ptr |-> nvalloc(PtrsOf(D.screens)),
                   identifier |-> Str("Screen", count, 0),
                   device |-> device.ptr,
                   device_name |-> device.identifier,
                   monitor |-> monitor.ptr]
    IN [D EXCEPT !.monitors = Append(@, monitor),
                 !.devices = Append(@, device),
                 !.screens = Append(@, screen)]

(***************************************************************************)
(* enable_all_gpus()                                                       *)
(***************************************************************************)
RECURSIVE add_screens(_, _, _)
add_screens(D, pDevices, i) ==
    IF i > Len(pDevices.devices) THEN D
    ELSE add_screens(xconfigGenerateAddScreen(D, pDevices.devices[i].bus,
                                              pDevices.devices[i].slot,
                                              pDevices.devices[i].name, i - 1),
                     pDevices, i + 1)

\* mutant: the lists that are there are not freed first
enable_all_gpus_keep(D, env) ==
    LET pDevices == find_devices(env) IN
    IF pDevices.null THEN Result(FALSE, D, EnumKind(env), pDevices, FALSE)
    ELSE LET D1 == add_screens(D, pDevices, 1)
         IN Result(TRUE, [D1 EXCEPT !.adjacencies = create_adjacencies(D1.screens)],
                   EnumKind(env), pDevices, FALSE)

\* mutant: the document is emptied before find_devices() is called
enable_all_gpus_freefirst(D, env) ==
    LET pDevices == find_devices(env) IN
    IF pDevices.null
    THEN Result(FALSE, Doc(<<>>, <<>>, <<>>, <<>>), EnumKind(env), pDevices, FALSE)
    ELSE LET D1 == add_screens(Doc(<<>>, <<>>, <<>>, <<>>), pDevices, 1)
         IN Result(TRUE, [D1 EXCEPT !.adjacencies = create_adjacencies(D1.screens)],
                   EnumKind(env), pDevices, FALSE)

enable_all_gpus(D, env) ==
    LET pDevices == find_devices(env) IN
    IF pDevices.null THEN Result(FALSE, D, EnumKind(env), pDevices, FALSE)
    ELSE LET D1 == add_screens(Doc(<<>>, <<>>, <<>>, <<>>), pDevices, 1)
         IN Result(TRUE, [D1 EXCEPT !.adjacencies = create_adjacencies(D1.screens)],
                   EnumKind(env), pDevices, FALSE)

(***************************************************************************)
(* only_one_screen()                                                       *)
(***************************************************************************)
\* mutant: the unused sections are freed before the Screen list is checked
only_one_screen_freefirst(D) ==
    IF Len(D.screens) = 0
    THEN Result(FALSE,
                [D EXCEPT !.devices = free_unused_devices(D.devices, D.screens),
                          !.monitors = free_unused_monitors(D.monitors, D.screens)],
                "none", NoDevices, FALSE)
    ELSE LET scrs == <<D.screens[1]>>
         IN Result(TRUE,
                   Doc(scrs, free_unused_devices(D.devices, scrs),
                       free_unused_monitors(D.monitors, scrs),
                       create_adjacencies(scrs)),
                   "none", NoDevices, FALSE)

\* mutant: the unused Monitor sections are not freed
only_one_screen_nomonitors(D) ==
    IF Len(D.screens) = 0 THEN Result(FALSE, D, "none", NoDevices, FALSE)
    ELSE LET scrs == <<D.screens[1]>>
         IN Result(TRUE,
                   Doc(scrs, free_unused_devices(D.devices, scrs), D.monitors,
                       create_adjacencies(scrs)),
                   "none", NoDevices, FALSE)

only_one_screen(D) ==
    IF Len(D.screens) = 0 THEN Result(FALSE, D, "none", NoDevices, FALSE)
    ELSE LET scrs == <<D.screens[1]>>
         IN Result(TRUE,
                   Doc(scrs, free_unused_devices(D.devices, scrs),
                       free_unused_monitors(D.monitors, scrs),
                       create_adjacencies(scrs)),
                   "none", NoDevices, FALSE)

(***************************************************************************)
(* enable_separate_x_screens()                                             *)
(***************************************************************************)
\* step 1: the candidate list, op->screen or every Screen of the layout
candidates(D, target) ==
    IF target # NullStr
    THEN <<xconfigFindScreen(target, D.screens)>>
    ELSE [k \in 1..Len(D.adjacencies) |-> D.adjacencies[k].screen]

\* mutant: only the first screen of the list is asked for its bus ID
have_busids_first(D, screenlist) ==
    /\ screenlist[1] # NULL
    /\ Deref(D.screens, screenlist[1]).device # NULL
    /\ Deref(D.devices, Deref(D.screens, screenlist[1]).device).busid # NoBusId

\* do all screens in the list have a bus ID?
have_busids(D, screenlist) ==
    \A i \in 1..Len(screenlist) :
        /\ screenlist[i] # NULL
        /\ Deref(D.screens, screenlist[i]).device # NULL
        /\ Deref(D.devices, Deref(D.screens, screenlist[i]).device).busid # NoBusId

\* mutant: a candidate that has a BusID keeps it
RECURSIVE assign_busids_missingonly(_, _, _, _)
assign_busids_missingonly(D, screenlist, pDevices, i) ==
    IF i > Len(screenlist) THEN [doc |-> D, screenlist |-> screenlist]
    ELSE IF i > Len(pDevices.devices)
    THEN assign_busids_missingonly(D, [screenlist EXCEPT ![i] = NULL], pDevices, i + 1)
    ELSE LET d == IndexOfPtr(D.devices, Deref(D.screens, screenlist[i]).device)
         IN IF D.devices[d].busid # NoBusId
            THEN assign_busids_missingonly(D, screenlist, pDevices, i + 1)
            ELSE assign_busids_missingonly(
                     [D EXCEPT !.devices[d].busid =
                                   snprintf_busid(pDevices.devices[i].bus,
                                                  pDevices.devices[i].slot),
                               !.devices[d].board = pDevices.devices[i].name],
                     screenlist, pDevices, i + 1)

\* step 2: candidate i gets the location and name of GPU i; a candidate
\* past the last GPU leaves the list
RECURSIVE assign_busids(_, _, _, _)
assign_busids(D, screenlist, pDevices, i) ==
    IF i > Len(screenlist) THEN [doc |-> D, screenlist |-> screenlist]
    ELSE IF i > Len(pDevices.devices)
    THEN assign_busids(D, [screenlist EXCEPT ![i] = NULL], pDevices, i + 1)
    ELSE LET d == IndexOfPtr(D.devices, Deref(D.screens, screenlist[i]).device)
         IN assign_busids(
                [D EXCEPT !.devices[d].busid =
                              snprintf_busid(pDevices.devices[i].bus,
                                             pDevices.devices[i].slot),
                          !.devices[d].board = pDevices.devices[i].name],
                screenlist, pDevices, i + 1)

\* mutant: the scan of the other Screens is missing
eligible_parseonly(D, p) ==
    xconfigParsePciBusString(Deref(D.devices, Deref(D.screens, p).device).busid).ok

\* step 3: a candidate stays when its BusID parses and no other Screen of
\* config->screens has a Device at the same bus and slot
eligible(D, p) ==
    LET loc0 == xconfigParsePciBusString(
                    Deref(D.devices, Deref(D.screens, p).device).busid)
    IN /\ loc0.ok
       /\ ~\E k \in 1..Len(D.screens) :
              LET screen == D.screens[k] IN
              /\ screen.ptr # p
              /\ screen.device # NULL
              /\ Deref(D.devices, screen.device).busid # NoBusId
              /\ LET loc1 == xconfigParsePciBusString(
                                 Deref(D.devices, screen.device).busid)
                 IN loc1.ok /\ loc0.bus = loc1.bus /\ loc0.slot = loc1.slot

filter_eligible(D, screenlist) ==
    [i \in 1..Len(screenlist) |->
        IF screenlist[i] # NULL /\ eligible(D, screenlist[i])
        THEN screenlist[i] ELSE NULL]

\* step 4: clone each eligible screen
RECURSIVE clone_eligible(_, _, _)
clone_eligible(D, screenlist, i) ==
    IF i > Len(screenlist) THEN D
    ELSE IF screenlist[i] = NULL THEN clone_eligible(D, screenlist, i + 1)
    ELSE clone_eligible(clone_screen(D, screenlist[i]), screenlist, i + 1)

\* whether the call reaches find_devices()
split_consults(D, target) ==
    LET screenlist == candidates(D, target) IN
    /\ ~(target # NullStr /\ screenlist[1] = NULL)
    /\ Len(screenlist) # 0
    /\ ~have_busids(D, screenlist)

enable_separate_x_screens(D, target, env) ==
    LET screenlist == candidates(D, target) IN
    IF target # NullStr /\ screenlist[1] = NULL
    THEN Result(FALSE, D, "none", NoDevices, FALSE)
    ELSE IF Len(screenlist) = 0
    THEN Result(FALSE, D, "none", NoDevices, FALSE)
    ELSE LET have == have_busids(D, screenlist)
             pDevices == IF have THEN NoDevices ELSE find_devices(env)
         IN IF ~have /\ pDevices.null
            THEN Result(FALSE, D, EnumKind(env), pDevices, FALSE)
            ELSE LET a == IF have THEN [doc |-> D, screenlist |-> screenlist]
                          ELSE assign_busids(D, screenlist, pDevices, 1)
                     D1 == clone_eligible(a.doc, filter_eligible(a.doc, a.screenlist), 1)
                 IN Result(TRUE,
                           [D1 EXCEPT !.adjacencies = create_adjacencies(D1.screens)],
                           IF have THEN "none" ELSE EnumKind(env), pDevices, FALSE)

(***************************************************************************)
(* disable_separate_x_screens()                                            *)
(***************************************************************************)
\* the parsed bus[] and slot[] arrays
parse_candidates(D, screenlist) ==
    [i \in 1..Len(screenlist) |->
        IF /\ screenlist[i] # NULL
           /\ Deref(D.screens, screenlist[i]).device # NULL
           /\ Deref(D.devices, Deref(D.screens, screenlist[i]).device).busid # NoBusId
        THEN xconfigParsePciBusString(
                 Deref(D.devices, Deref(D.screens, screenlist[i]).device).busid)
        ELSE [ok |-> FALSE, bus |-> 0, slot |-> 0, func |-> 0]]

\* limit the list to screens that have a BusID
limit_to_busids(screenlist, loc) ==
    [i \in 1..Len(screenlist) |-> IF loc[i].ok THEN screenlist[i] ELSE NULL]

\* mutant: a later entry is dropped only when it is the same Screen
RECURSIVE trim_inner_sameptr(_, _, _, _)
trim_inner_sameptr(screenlist, loc, i, j) ==
    IF j > Len(screenlist) THEN screenlist
    ELSE IF screenlist[j] # NULL /\ screenlist[j] = screenlist[i]
    THEN trim_inner_sameptr([screenlist EXCEPT ![j] = NULL], loc, i, j + 1)
    ELSE trim_inner_sameptr(screenlist, loc, i, j + 1)

\* trim out duplicates
RECURSIVE trim_inner(_, _, _, _)
trim_inner(screenlist, loc, i, j) ==
    IF j > Len(screenlist) THEN screenlist
    ELSE IF screenlist[j] # NULL /\ loc[i].bus = loc[j].bus /\ loc[i].slot = loc[j].slot
    THEN trim_inner([screenlist EXCEPT ![j] = NULL], loc, i, j + 1)
    ELSE trim_inner(screenlist, loc, i, j + 1)

\* mutant: duplicates are not trimmed out
trim_duplicates_none(screenlist, loc, i) == screenlist

RECURSIVE trim_duplicates(_, _, _)
trim_duplicates(screenlist, loc, i) ==
    IF i > Len(screenlist) THEN screenlist
    ELSE IF screenlist[i] = NULL THEN trim_duplicates(screenlist, loc, i + 1)
    ELSE trim_duplicates(trim_inner(screenlist, loc, i, i + 1), loc, i + 1)

\* mutant: the function field is compared too
remove_siblings_func(D, p, loc) ==
    LET keep(screen) ==
            \/ screen.ptr = p
            \/ screen.device = NULL
            \/ Deref(D.devices, screen.device).busid = NoBusId
            \/ LET loc0 == xconfigParsePciBusString(Deref(D.devices, screen.device).busid)
               IN ~(loc0.ok /\ loc0.bus = loc.bus /\ loc0.slot = loc.slot
                    /\ loc0.func = loc.func)
    IN SelectSeq(D.screens, keep)

\* mutant: a Screen whose BusID is missing or does not parse is freed too
remove_siblings_unparsed(D, p, loc) ==
    LET keep(screen) ==
            \/ screen.ptr = p
            \/ screen.device = NULL
            \/ LET loc0 == xconfigParsePciBusString(Deref(D.devices, screen.device).busid)
               IN loc0.ok /\ ~(loc0.bus = loc.bus /\ loc0.slot = loc.slot)
    IN SelectSeq(D.screens, keep)

\* the scan for one candidate: every other Screen at its bus and slot is
\* unlinked and freed
remove_siblings(D, p, loc) ==
    LET keep(screen) ==
            \/ screen.ptr = p
            \/ screen.device = NULL
            \/ Deref(D.devices, screen.device).busid = NoBusId
            \/ LET loc0 == xconfigParsePciBusString(Deref(D.devices, screen.device).busid)
               IN ~(loc0.ok /\ loc0.bus = loc.bus /\ loc0.slot = loc.slot)
    IN SelectSeq(D.screens, keep)

\* for every screen in the de-clone list: the scan, then
\* screenlist[i]->device->screen = -1.  orig holds the Screen records as
\* they were when the list was built: what a freed Screen's memory reads as.
RECURSIVE declone(_, _, _, _, _, _)
declone(D, orig, screenlist, loc, i, uaf) ==
    IF i > Len(screenlist) THEN [doc |-> D, uaf |-> uaf]
    ELSE IF screenlist[i] = NULL THEN declone(D, orig, screenlist, loc, i + 1, uaf)
    ELSE LET scrs == remove_siblings(D, screenlist[i], loc[i])
             d == IndexOfPtr(D.devices, Deref(orig, screenlist[i]).device)
         IN declone([D EXCEPT !.screens = scrs, !.devices[d].screen = -1],
                    orig, screenlist, loc, i + 1,
                    uaf \/ ~Live(scrs, screenlist[i]))

disable_separate_x_screens(D, target) ==
    LET screenlist0 == candidates(D, target) IN
    IF target # NullStr /\ screenlist0[1] = NULL
    THEN Result(FALSE, D, "none", NoDevices, FALSE)
    ELSE LET loc == parse_candidates(D, screenlist0)
             screenlist == trim_duplicates(limit_to_busids(screenlist0, loc), loc, 1)
             r == declone(D, D.screens, screenlist, loc, 1, FALSE)
             adjs == create_adjacencies(r.doc.screens)
         IN Result(TRUE,
                   Doc(r.doc.screens,
                       free_unused_devices(r.doc.devices, r.doc.screens),
                       free_unused_monitors(r.doc.monitors, r.doc.screens),
                       adjs),
                   "none", NoDevices, r.uaf)

(***************************************************************************)
(* set_xinerama()                                                          *)
(***************************************************************************)
\* remove_option_from_list(&list, name)
remove_option_from_list(options, name) ==
    LET other(o) == o.name # name IN SelectSeq(options, other)

\* xconfigAddNewOption(list, name, val)
xconfigAddNewOption(options, name, val) == Append(options, [name |-> name, val |-> val])

\* mutant: the option that is there is not removed first
set_xinerama_noremove(xinerama_enabled, f) ==
    LET options == IF f.present THEN f.options ELSE <<>>
    IN [ok |-> TRUE,
        flags |-> [present |-> TRUE,
                   options |-> xconfigAddNewOption(
                                   options, "Xinerama",
                                   IF xinerama_enabled THEN "1" ELSE "0")]]

set_xinerama(xinerama_enabled, f) ==
    LET options == IF f.present THEN f.options ELSE <<>>
    IN [ok |-> TRUE,
        flags |-> [present |-> TRUE,
                   options |-> xconfigAddNewOption(
                                   remove_option_from_list(options, "Xinerama"),
                                   "Xinerama",
                                   IF xinerama_enabled THEN "1" ELSE "0")]]

(***************************************************************************)
(* Initial documents: what the parser hands over.  Every Screen refers to  *)
(* a Device and a Monitor of the document, Screen identifiers are          *)
(* distinct, and the layout lists some of the Screens, in order.  Devices  *)
(* and Monitors may be shared by Screens or used by none; the first Screen *)
(* is taken to use the first Device and the first Monitor.                 *)
(***************************************************************************)
BusIdStrings ==
    {NoBusId, <<1>>, <<1, 0, 1>>} \cup {<<b, 0, 0>> : b \in 1..MaxBus}

\* Screen i is named Scr<i>, or as an earlier Screen plus " (2nd)"
ScreenNamings(n) ==
    {f \in [1..n -> {Str("Scr", i, k) : i \in 1..n, k \in 0..1}] :
        /\ \A i \in 1..n : f[i].num <= i /\ (f[i].suffix = 0 <=> f[i].num = i)
        /\ \A i, j \in 1..n : i # j => f[i] # f[j]}

InitDevice(i, busid) ==
    [ptr |-> i, identifier |-> Str("Dev", i, 0), busid |-> busid, board |-> NullStr,
     screen |-> -1, chipid |-> 1, chiprev |-> 1, irq |-> 1]

InitMonitor(i) == [ptr |-> i, identifier |-> Str("Mon", i, 0)]

InitScreen(i, name, d, m) ==
    [ptr |-> i, identifier |-> name, device |-> d,
     device_name |-> Str("Dev", d, 0), monitor |-> m]

InitDocs(maxs, maxd, maxm) ==
    UNION {
        {LET scrs == [i \in 1..n |-> InitScreen(i, names[i], devOf[i], monOf[i])]
             inLayout(screen) == screen.ptr \in layout
         IN Doc(scrs,
                [i \in 1..nd |-> InitDevice(i, busids[i])],
                [i \in 1..nm |-> InitMonitor(i)],
                create_adjacencies(SelectSeq(scrs, inLayout))) :
            busids \in [1..nd -> BusIdStrings],
            devOf \in {f \in [1..n -> 1..nd] : n > 0 => f[1] = 1},
            monOf \in {f \in [1..n -> 1..nm] : n > 0 => f[1] = 1},
            names \in ScreenNamings(n),
            layout \in SUBSET (1..n)} :
        n \in 0..maxs, nd \in 0..maxd, nm \in 0..maxm}

NoFlags == [present |-> FALSE, options |-> <<>>]

NoOptions ==
    [enable_all_gpus |-> FALSE, separate |-> "unset", xinerama |-> "unset",
     only_one_screen |-> FALSE, screen |-> NullStr]

CurDoc == Doc(screens, devices, monitors, adjacencies)

BusIdsOf(D) ==
    [k \in 1..Len(D.screens) |->
        [ptr |-> D.screens[k].ptr,
         busid |-> Deref(D.devices, D.screens[k].device).busid]]

NoHistory(D) ==
    [op |-> "none", target |-> NullStr, ok |-> TRUE, consulted |-> FALSE,
     enum |-> "none", inv |-> NoDevices, uaf |-> FALSE, pre |-> D]

Summary(h) ==
    [op |-> h.op, target |-> h.target, ok |-> h.ok, consulted |-> h.consulted,
     inv |-> h.inv, nscreens |-> Len(h.pre.screens), busids |-> BusIdsOf(h.pre)]

InitWith(D) ==
    /\ screens = D.screens
    /\ devices = D.devices
    /\ monitors = D.monitors
    /\ adjacencies = D.adjacencies
    /\ flags = NoFlags
    /\ last = NoHistory(D)
    /\ before = Summary(NoHistory(D))
    /\ nops = 0
    /\ pc = "idle"
    /\ op = NoOptions
    /\ ran = <<>>
    /\ ret = "none"

Init == \E D \in InitDocs(MaxScreens, MaxDevices, MaxMonitors) : InitWith(D)

\* op->screen: unset, the identifier of a Screen, or of none
Targets == {NullStr, Str("Scr", 0, 0)} \cup {screens[i].identifier : i \in 1..Len(screens)}

\* the document and the history after an operation returned r
Returned(name, target, r) ==
    /\ screens' = r.doc.screens
    /\ devices' = r.doc.devices
    /\ monitors' = r.doc.monitors
    /\ adjacencies' = r.doc.adjacencies
    /\ last' = [op |-> name, target |-> target, ok |-> r.ok, consulted |-> r.consulted,
                enum |-> r.enum, inv |-> r.inv, uaf |-> r.uaf, pre |-> CurDoc]
    /\ before' = Summary(last)
    /\ nops' = nops + 1

(***************************************************************************)
(* Spec: the operations, one per run of the program, in any order.         *)
(***************************************************************************)
Populate ==
    /\ pc = "idle" /\ nops < MaxOps
    /\ \E env \in Envs : Returned("populate", NullStr, enable_all_gpus(CurDoc, env))
    /\ UNCHANGED <<flags, pc, op, ran, ret>>

Split ==
    /\ pc = "idle" /\ nops < MaxOps
    /\ \E target \in Targets :
          \E env \in (IF split_consults(CurDoc, target) THEN Envs ELSE {CHOOSE e \in Envs : TRUE}) :
              Returned("split", target, enable_separate_x_screens(CurDoc, target, env))
    /\ UNCHANGED <<flags, pc, op, ran, ret>>

Merge ==
    /\ pc = "idle" /\ nops < MaxOps
    /\ \E target \in Targets :
          Returned("merge", target, disable_separate_x_screens(CurDoc, target))
    /\ UNCHANGED <<flags, pc, op, ran, ret>>

Restrict ==
    /\ pc = "idle" /\ nops < MaxOps
    /\ Returned("restrict", NullStr, only_one_screen(CurDoc))
    /\ UNCHANGED <<flags, pc, op, ran, ret>>

Next == Populate \/ Split \/ Merge \/ Restrict

Spec == Init /\ [][Next]_vars

(***************************************************************************)
(* SpecApply: one call of apply_multi_screen_options(), any Options.       *)
(***************************************************************************)
AllOptions ==
    [enable_all_gpus : BOOLEAN, separate : {"unset", "on", "off"},
     xinerama : {"unset", "on", "off"}, only_one_screen : BOOLEAN,
     screen : {NullStr, Str("Scr", 0, 0), Str("Scr", 1, 0)}]

InitFlags ==
    {NoFlags,
     [present |-> TRUE, options |-> <<>>],
     [present |-> TRUE, options |-> <<[name |-> "Xinerama", val |-> "0"],
                                      [name |-> "AllowMouseOpenFail", val |-> "1"]>>]}

InitApply ==
    \E D \in InitDocs(MaxApplyScreens, MaxApplyScreens, MaxApplyScreens),
       o \in AllOptions, f \in InitFlags :
        /\ screens = D.screens
        /\ devices = D.devices
        /\ monitors = D.monitors
        /\ adjacencies = D.adjacencies
        /\ flags = f
        /\ last = NoHistory(D)
        /\ before = Summary(NoHistory(D))
        /\ nops = 0
        /\ pc = "all_gpus"
        /\ op = o
        /\ ran = <<>>
        /\ ret = "none"

\* mutant: the order of the comment above the function, only one X screen
\* before Xinerama
NextPc_onlyonefirst(p) ==
    CASE p = "all_gpus" -> "separate"
      [] p = "separate" -> "only_one"
      [] p = "only_one" -> "xinerama"
      [] p = "xinerama" -> "return"

\* the statement after the one at p, when that did not return
NextPc(p) ==
    CASE p = "all_gpus" -> "separate"
      [] p = "separate" -> "xinerama"
      [] p = "xinerama" -> "only_one"
      [] p = "only_one" -> "return"

\* mutant: a failed operation does not end the call
Called_continue(name, ok) ==
    /\ ran' = Append(ran, name)
    /\ pc' = NextPc(pc)
    /\ ret' = IF ok THEN ret ELSE "FALSE"

\* a requested operation was called and returned r: if (!...) return FALSE
Called(name, ok) ==
    /\ ran' = Append(ran, name)
    /\ pc' = IF ok THEN NextPc(pc) ELSE "returned"
    /\ ret' = IF ok THEN ret ELSE "FALSE"

Skipped ==
    /\ pc' = NextPc(pc)
    /\ UNCHANGED <<screens, devices, monitors, adjacencies, flags, last, before, nops,
                   ran, ret>>

ApplyAllGpus ==
    /\ pc = "all_gpus"
    /\ IF op.enable_all_gpus
       THEN \E env \in Envs :
               LET r == enable_all_gpus(CurDoc, env) IN
               Returned("populate", NullStr, r) /\ Called("populate", r.ok)
                   /\ UNCHANGED flags
       ELSE Skipped
    /\ UNCHANGED op

ApplySeparate ==
    /\ pc = "separate"
    /\ IF op.separate = "on"
       THEN \E env \in (IF split_consults(CurDoc, op.screen)
                        THEN Envs ELSE {CHOOSE e \in Envs : TRUE}) :
               LET r == enable_separate_x_screens(CurDoc, op.screen, env) IN
               Returned("split", op.screen, r) /\ Called("split", r.ok)
                   /\ UNCHANGED flags
       ELSE IF op.separate = "off"
       THEN LET r == disable_separate_x_screens(CurDoc, op.screen) IN
            Returned("merge", op.screen, r) /\ Called("merge", r.ok)
                /\ UNCHANGED flags
       ELSE Skipped
    /\ UNCHANGED op

ApplyXinerama ==
    /\ pc = "xinerama"
    /\ IF op.xinerama # "unset"
       THEN LET r == set_xinerama(op.xinerama = "on", flags) IN
            /\ flags' = r.flags
            /\ Returned("xinerama", NullStr, Result(r.ok, CurDoc, "none", NoDevices, FALSE))
            /\ Called("xinerama", r.ok)
       ELSE Skipped
    /\ UNCHANGED op

ApplyOnlyOne ==
    /\ pc = "only_one"
    /\ IF op.only_one_screen
       THEN LET r == only_one_screen(CurDoc) IN
            Returned("restrict", NullStr, r) /\ Called("restrict", r.ok)
                /\ UNCHANGED flags
       ELSE Skipped
    /\ UNCHANGED op

ApplyReturn ==
    /\ pc = "return"
    /\ pc' = "returned"
    /\ ret' = "TRUE"
    /\ UNCHANGED <<screens, devices, monitors, adjacencies, flags, last, before, nops,
                   op, ran>>

NextApply == ApplyAllGpus \/ ApplySeparate \/ ApplyXinerama \/ ApplyOnlyOne \/ ApplyReturn

SpecApply == InitApply /\ [][NextApply]_vars

(***************************************************************************)
(* SpecFind: one call of find_devices(), on any enumeration of up to       *)
(* MaxFindGpus GPUs, any of which nvCfgIsPrimaryDevice may report primary. *)
(* last.env is what the library answers, last.inv what the call returns.   *)
(***************************************************************************)
FindGpuSeqs == UNION {{[k \in 1..n |-> Gpu(f[k])] :
                          f \in {g \in [1..n -> 1..MaxFindGpus] :
                                    \A a, b \in 1..n : a # b => g[a] # g[b]}} :
                      n \in 0..MaxFindGpus}

FindEnvs ==
    {[lib |-> FALSE, ok |-> FALSE, devs |-> <<>>, primary |-> {}, fail |-> 0],
     [lib |-> TRUE, ok |-> FALSE, devs |-> <<>>, primary |-> {}, fail |-> 0]}
    \cup UNION {{[lib |-> TRUE, ok |-> TRUE, devs |-> d, primary |-> P, fail |-> f] :
                    f \in 0..Len(d), P \in SUBSET (1..Len(d))} : d \in FindGpuSeqs}

InitFind ==
    \E env \in FindEnvs :
        /\ screens = <<>>
        /\ devices = <<>>
        /\ monitors = <<>>
        /\ adjacencies = <<>>
        /\ flags = NoFlags
        /\ last = [op |-> "none", ok |-> TRUE, enum |-> "none", inv |-> NoDevices,
                   env |-> env]
        /\ before = Summary(NoHistory(Doc(<<>>, <<>>, <<>>, <<>>)))
        /\ nops = 0
        /\ pc = "find"
        /\ op = NoOptions
        /\ ran = <<>>
        /\ ret = "none"

FindDevices ==
    /\ pc = "find"
    /\ pc' = "found"
    /\ last' = [last EXCEPT !.op = "find_devices",
                            !.inv = find_devices(last.env),
                            !.enum = EnumKind(last.env),
                            !.ok = ~find_devices(last.env).null]
    /\ UNCHANGED <<screens, devices, monitors, adjacencies, flags, before, nops,
                   op, ran, ret>>

NextFind == FindDevices

SpecFind == InitFind /\ [][NextFind]_vars

(***************************************************************************)
(* Properties.                                                             *)
(***************************************************************************)
Succeeded(names) == last.op \in names /\ last.ok

Referenced(p, field) == \E i \in 1..Len(screens) : screens[i][field] = p

\* the (bus, slot) a Screen's Device claims in document D
LocOf(D, screen) == xconfigParsePciBusString(Deref(D.devices, screen.device).busid)

SameLoc(a, b) == a.ok /\ b.ok /\ a.bus = b.bus /\ a.slot = b.slot

C2_NoOrphansAndOnlyOrphansFreed ==
    Succeeded({"merge", "restrict"}) =>
        /\ \A i \in 1..Len(devices) : Referenced(devices[i].ptr, "device")
        /\ \A i \in 1..Len(monitors) : Referenced(monitors[i].ptr, "monitor")
        /\ \A i \in 1..Len(last.pre.devices) :
              ~Live(devices, last.pre.devices[i].ptr)
                  => ~Referenced(last.pre.devices[i].ptr, "device")
        /\ \A i \in 1..Len(last.pre.monitors) :
              ~Live(monitors, last.pre.monitors[i].ptr)
                  => ~Referenced(last.pre.monitors[i].ptr, "monitor")

\* C2 witness: a merge removed a Screen, and with it a Device and a Monitor,
\* and kept a Device and a Monitor
C2_Witness ==
    /\ Succeeded({"merge"})
    /\ Len(screens) < Len(last.pre.screens)
    /\ Len(devices) < Len(last.pre.devices) /\ Len(devices) > 0
    /\ Len(monitors) < Len(last.pre.monitors) /\ Len(monitors) > 0

\* C3 (as claimed): Screen identifiers are pairwise distinct, the initial
\* document's being so.
C3_IdentifiersDistinct ==
    \A i, j \in 1..Len(screens) : i # j => screens[i].identifier # screens[j].identifier

\* the Screens of a list of (Screen, BusID) that claim each some (bus, slot)
\* are at most two
AtMostTwoPerLocation(busids) ==
    \A i \in 1..Len(busids) :
        LET loc == xconfigParsePciBusString(busids[i].busid) IN
        loc.ok => Cardinality({j \in 1..Len(busids) :
                      SameLoc(loc, xconfigParsePciBusString(busids[j].busid))}) <= 2

\* the (Screen, BusID) list of the initial document, for the first two operations
StartBusIds ==
    IF nops = 0 THEN BusIdsOf(CurDoc)
    ELSE IF nops = 1 THEN BusIdsOf(last.pre)
    ELSE before.busids

\* C4 (as claimed): if no (bus, slot) is claimed by more than two Screens of
\* the initial document, none is after the operations.
C4_AtMostTwoScreensPerLocation ==
    (nops <= 2 /\ AtMostTwoPerLocation(StartBusIds))
        => AtMostTwoPerLocation(BusIdsOf(CurDoc))

\* C5 (as claimed): after a successful merge with no named target no two
\* Screens claim the same (bus, slot).
C5_MergeAllLeavesOnePerLocation ==
    (Succeeded({"merge"}) /\ last.target = NullStr) =>
        \A i, j \in 1..Len(screens) :
            i # j => ~SameLoc(LocOf(CurDoc, screens[i]), LocOf(CurDoc, screens[j]))

\* C5 (amended): after a successful merge with no named target, no Screen
\* that the layout listed when the merge began shares its (bus, slot) with
\* another Screen.
C5_MergeAllLeavesLayoutScreensAlone ==
    (Succeeded({"merge"}) /\ last.target = NullStr) =>
        \A i, j \in 1..Len(screens) :
            (i # j /\ \E k \in 1..Len(last.pre.adjacencies) :
                          last.pre.adjacencies[k].screen = screens[i].ptr)
                => ~SameLoc(LocOf(CurDoc, screens[i]), LocOf(CurDoc, screens[j]))

\* C5 witness: a merge of a layout that did not list every Screen removed
\* the sibling of a Screen the layout listed, which survives
C5_Witness ==
    /\ Succeeded({"merge"}) /\ last.target = NullStr
    /\ Len(screens) < Len(last.pre.screens)
    /\ Len(last.pre.adjacencies) < Len(last.pre.screens)
    /\ \E i \in 1..Len(screens), k \in 1..Len(last.pre.adjacencies) :
          /\ last.pre.adjacencies[k].screen = screens[i].ptr
          /\ LocOf(CurDoc, screens[i]).ok

\* C6: when split, merge or restrict returns FALSE the Screen, Device,
\* Monitor and Adjacency lists are what they were before the call.
C6_FailureLeavesDocument ==
    (last.op \in {"split", "merge", "restrict"} /\ ~last.ok) => CurDoc = last.pre

\* C6 witness: a split of a document with Screens failed at find_devices()
C6_Witness ==
    /\ last.op = "split" /\ ~last.ok /\ last.consulted
    /\ Len(screens) > 0 /\ Len(devices) > 0

\* C7: when the enumeration fails or reports no GPU, populate returns FALSE
\* and the Screens, Devices, Monitors and Adjacencies are all still there.
C7_PopulateFailureFreesNothing ==
    (last.op = "populate" /\ last.enum \in {"lib", "getdevices", "zero", "query"}) =>
        ~last.ok /\ CurDoc = last.pre

\* C7 witness: populate met an enumeration of no GPU on a document with
\* Screens, Devices, Monitors and Adjacencies
C7_Witness ==
    /\ last.op = "populate" /\ last.enum = "zero"
    /\ Len(screens) > 0 /\ Len(devices) > 0 /\ Len(monitors) > 0 /\ Len(adjacencies) > 0

\* two successive operations had the same target and, where both called
\* find_devices(), got the same answer
SameInputs ==
    /\ last.target = before.target
    /\ (last.consulted /\ before.consulted) => last.inv = before.inv

\* C8 (as claimed): the second of two successive splits with the same
\* target and inventory clones nothing.
C8_SecondSplitClonesNothing ==
    (Succeeded({"split"}) /\ before.op = "split" /\ before.ok /\ SameInputs)
        => screens = last.pre.screens

NoSharedLocation(busids) ==
    \A i, j \in 1..Len(busids) :
        i # j => ~SameLoc(xconfigParsePciBusString(busids[i].busid),
                          xconfigParsePciBusString(busids[j].busid))

SplitThenMerge ==
    /\ Succeeded({"merge"}) /\ before.op = "split" /\ before.ok
    /\ last.target = before.target

RoundTrip ==
    /\ Len(screens) = before.nscreens
    /\ \A k \in 1..Len(before.busids) :
          /\ Live(screens, before.busids[k].ptr)
          /\ LET screen == Deref(screens, before.busids[k].ptr)
             IN Deref(devices, screen.device).busid = before.busids[k].busid

\* C9 (as claimed): a successful split followed by merge with the same
\* target leaves as many Screens as before the split, and every original
\* Screen's Device has the BusID it had.
C9_SplitMergeRoundTrip == SplitThenMerge => RoundTrip

\* C9 (amended): so it is when, before the split, no two Screens claimed the
\* same (bus, slot) and every candidate had a BusID (the split did not call
\* find_devices()).
C9_SplitMergeRoundTripUnsplit ==
    (SplitThenMerge /\ ~before.consulted /\ NoSharedLocation(before.busids))
        => RoundTrip

\* C9 witness: such a split cloned a Screen and the merge removed the clone
C9_Witness ==
    /\ SplitThenMerge /\ ~before.consulted /\ NoSharedLocation(before.busids)
    /\ Len(last.pre.screens) > before.nscreens
    /\ Len(screens) < Len(last.pre.screens)

\* the operations the Options ask for
Requested ==
    (IF op.enable_all_gpus THEN {"populate"} ELSE {})
    \cup (IF op.separate = "on" THEN {"split"} ELSE {})
    \cup (IF op.separate = "off" THEN {"merge"} ELSE {})
    \cup (IF op.xinerama # "unset" THEN {"xinerama"} ELSE {})
    \cup (IF op.only_one_screen THEN {"restrict"} ELSE {})

Rank(name) ==
    CASE name = "populate" -> 1
      [] name \in {"split", "merge"} -> 2
      [] name = "xinerama" -> 3
      [] name = "restrict" -> 4

PopulatedNames(pDevices) ==
    [k \in 1..Len(pDevices.devices) |-> Str("Screen", k - 1, 0)]

\* C11: when a requested operation of apply_multi_screen_options fails, the
\* call returns FALSE at once (no later operation runs), and the document
\* is the one the failing operation was called on: what the operations
\* before it made (the Screens of a populate, the Xinerama option) stays.
C11_FailureAbortsWithoutRollback ==
    /\ (last.op # "none" /\ ~last.ok) => (pc = "returned" /\ ret = "FALSE")
    /\ (pc = "returned" /\ ret = "FALSE") =>
          /\ Len(ran) > 0 /\ last.op = ran[Len(ran)] /\ ~last.ok
          /\ CurDoc = last.pre
          /\ (before.op = "populate" /\ before.ok) =>
                [k \in 1..Len(screens) |-> screens[k].identifier]
                    = PopulatedNames(before.inv)
          /\ (\E k \in 1..Len(ran) : ran[k] = "xinerama") =>
                /\ flags.present
                /\ \E k \in 1..Len(flags.options) :
                      flags.options[k] = [name |-> "Xinerama",
                                          val |-> IF op.xinerama = "on" THEN "1" ELSE "0"]

\* C11 witness: populate made two Screens, then the split failed for want
\* of the named Screen, and the two Screens are there on return
C11_Witness ==
    /\ pc = "returned" /\ ret = "FALSE"
    /\ ran = <<"populate", "split">>
    /\ Len(screens) = 2 /\ Len(last.pre.screens) = 2
    /\ screens[1].identifier = Str("Screen", 0, 0)

\* C12: restrict on a document with Screens returns TRUE and leaves the
\* first Screen alone, as it was, one adjacency numbered 0 that refers to
\* it, and of the Devices and Monitors exactly those it refers to, as they
\* were; on a document without Screens it returns FALSE.
C12_RestrictKeepsFirstScreen ==
    last.op = "restrict" =>
        IF Len(last.pre.screens) = 0 THEN ~last.ok
        ELSE /\ last.ok
             /\ screens = <<last.pre.screens[1]>>
             /\ Len(adjacencies) = 1
             /\ adjacencies[1].scrnum = 0
             /\ adjacencies[1].screen = screens[1].ptr
             /\ adjacencies[1].screen_name = screens[1].identifier
             /\ LET used(device) == device.ptr = screens[1].device
                IN devices = SelectSeq(last.pre.devices, used)
             /\ LET used(monitor) == monitor.ptr = screens[1].monitor
                IN monitors = SelectSeq(last.pre.monitors, used)

\* C12 witness: restrict took a document of three Screens, and more than
\* one Device and Monitor, to one of each
C12_Witness ==
    /\ last.op = "restrict" /\ last.ok
    /\ Len(last.pre.screens) = 3
    /\ Len(last.pre.devices) > 1 /\ Len(last.pre.monitors) > 1
    /\ Len(screens) = 1 /\ Len(devices) = 1 /\ Len(monitors) = 1

\* the records of a list that no Screen of scrs refers to through field
Orphans(list, scrs, field) ==
    LET unused(record) == \A i \in 1..Len(scrs) : scrs[i][field] # record.ptr
    IN SelectSeq(list, unused)

NoOrphans ==
    /\ Orphans(devices, screens, "device") = <<>>
    /\ Orphans(monitors, screens, "monitor") = <<>>

TargetMissing ==
    /\ last.target # NullStr
    /\ \A i \in 1..Len(last.pre.screens) : last.pre.screens[i].identifier # last.target

\* the BusIDs of the candidates of the last operation, in candidate order
CandidateBusIds ==
    IF TargetMissing THEN <<>>
    ELSE LET screenlist == candidates(last.pre, last.target)
         IN [k \in 1..Len(screenlist) |->
                Deref(last.pre.devices, Deref(last.pre.screens, screenlist[k]).device).busid]

SomeCandidateLacksBusId == \E k \in 1..Len(CandidateBusIds) : CandidateBusIds[k] = NoBusId

InventoryFailed == last.enum \in {"lib", "getdevices", "zero", "query"}

\* the failures of the claim: InventoryUnavailable, ScreenNotFound, NoScreens
ClaimedFailure ==
    CASE last.op = "populate" -> InventoryFailed
      [] last.op = "split" -> TargetMissing \/ (SomeCandidateLacksBusId /\ InventoryFailed)
      [] last.op = "merge" -> TargetMissing
      [] last.op = "restrict" -> Len(last.pre.screens) = 0

\* split of every Screen of a layout that lists none
NoCandidates ==
    last.op = "split" /\ last.target = NullStr /\ Len(last.pre.adjacencies) = 0

\* populate always asks for the inventory; split asks when a candidate has no BusID
InventoryAsked ==
    /\ last.op = "populate" => last.consulted
    /\ last.op = "split" => (last.consulted <=> SomeCandidateLacksBusId)
    /\ last.op \in {"merge", "restrict"} => ~last.consulted

\* C14 (as claimed): an operation fails exactly when the inventory is
\* unavailable (populate, or split with a candidate without BusID), the
\* named Screen is not found (split, merge) or there is no Screen (restrict).
C14_OnlyClaimedFailures ==
    last.op \in {"populate", "split", "merge", "restrict"} =>
        (InventoryAsked /\ (~last.ok <=> ClaimedFailure))

\* C14 (amended): those, and a split of every Screen of a layout that lists
\* no Screen, are the only failures.
C14_OnlyFailures ==
    last.op \in {"populate", "split", "merge", "restrict"} =>
        (InventoryAsked /\ (~last.ok <=> (ClaimedFailure \/ NoCandidates)))

\* C14 witness: a split succeeded though it cloned nothing, its second
\* candidate being one more than the inventory had GPUs
C14_Witness ==
    /\ Succeeded({"split"}) /\ last.consulted
    /\ Len(CandidateBusIds) > Len(last.inv.devices)
    /\ screens = last.pre.screens

LastCandidates == IF TargetMissing THEN <<>> ELSE candidates(last.pre, last.target)

\* the Screens that were there before the last operation
WasThere(p) == p \in PtrsOf(last.pre.screens)

\* (a) and (b) of split's step 3 for the Screen at p, with the BusIDs that
\* step 2 left: it parses, and no other Screen that was there has a Device
\* at the same bus and slot
MeetsEligibility(p) ==
    LET loc0 == LocOf(CurDoc, Deref(screens, p))
    IN /\ loc0.ok
       /\ \A k \in 1..Len(screens) :
              (WasThere(screens[k].ptr) /\ screens[k].ptr # p)
                  => ~SameLoc(loc0, LocOf(CurDoc, screens[k]))

\* the Screen at p is followed by a Screen that was not there: its clone
Cloned(p) ==
    LET i == IndexOfPtr(screens, p)
    IN i < Len(screens) /\ ~WasThere(screens[i + 1].ptr)

\* candidate k was not dropped by step 2 for want of a GPU
KeptByStep2(k) == last.consulted => k <= Len(last.inv.devices)

\* C16 (as claimed): split clones a candidate exactly if its BusID parses
\* and no other Screen is at its (bus, slot), and the Screens are as many
\* more as there are such candidates.
C16_ClonedIffEligible ==
    Succeeded({"split"}) =>
        /\ \A k \in 1..Len(LastCandidates) :
              Cloned(LastCandidates[k]) <=> MeetsEligibility(LastCandidates[k])
        /\ Len(screens) = Len(last.pre.screens)
              + Cardinality({k \in 1..Len(LastCandidates) :
                                MeetsEligibility(LastCandidates[k])})

\* C16 (amended): so it is of the candidates that step 2 did not drop for
\* want of a GPU; a dropped candidate is not cloned.
C16_ClonedIffEligibleAndKept ==
    Succeeded({"split"}) =>
        /\ \A k \in 1..Len(LastCandidates) :
              Cloned(LastCandidates[k])
                  <=> (KeptByStep2(k) /\ MeetsEligibility(LastCandidates[k]))
        /\ Len(screens) = Len(last.pre.screens)
              + Cardinality({k \in 1..Len(LastCandidates) :
                                KeptByStep2(k) /\ MeetsEligibility(LastCandidates[k])})

\* C16 witness: of two candidates a split cloned one and not the other
C16_Witness ==
    /\ Succeeded({"split"})
    /\ Len(LastCandidates) = 2
    /\ Len(screens) = Len(last.pre.screens) + 1

\* the Device of the Screen at p, before and after the last operation
DeviceBefore(p) == Deref(last.pre.devices, Deref(last.pre.screens, p).device)

DeviceAfter(p) == Deref(devices, Deref(last.pre.screens, p).device)

\* what split's step 2 is claimed to do to the candidates
PositionalAssignment ==
    IF SomeCandidateLacksBusId
    THEN /\ last.consulted
         /\ \A k \in 1..Len(LastCandidates) :
               LET p == LastCandidates[k] IN
               IF k <= Len(last.inv.devices)
               THEN /\ DeviceAfter(p).busid = <<last.inv.devices[k].bus,
                                                last.inv.devices[k].slot, 0>>
                    /\ DeviceAfter(p).board = last.inv.devices[k].name
               ELSE /\ Deref(screens, p) = Deref(last.pre.screens, p)
                    /\ DeviceAfter(p) = DeviceBefore(p)
                    /\ ~Cloned(p)
    ELSE /\ ~last.consulted
         /\ \A k \in 1..Len(last.pre.screens) :
               DeviceAfter(last.pre.screens[k].ptr).busid
                   = DeviceBefore(last.pre.screens[k].ptr).busid

\* no two candidates refer to one Device section
CandidatesOwnDevices ==
    \A j, k \in 1..Len(LastCandidates) :
        j # k => Deref(last.pre.screens, LastCandidates[j]).device
                   # Deref(last.pre.screens, LastCandidates[k]).device

\* C17 (as claimed): after a successful split with a candidate that lacked
\* a BusID, candidate i has the location and board name of GPU i, and the
\* candidates past the last GPU are as they were and not cloned; with no
\* such candidate find_devices() is not called and no BusID changes.
C17_PositionalBusIds == Succeeded({"split"}) => PositionalAssignment

\* C17 (amended): so it is when no two candidates refer to the same Device.
C17_PositionalBusIdsOwnDevices ==
    (Succeeded({"split"}) /\ CandidatesOwnDevices) => PositionalAssignment

\* C17 witness: of two candidates with Devices of their own the first had a
\* BusID and got that of the only GPU, another one; the second was dropped
C17_Witness ==
    /\ Succeeded({"split"}) /\ CandidatesOwnDevices /\ last.consulted
    /\ Len(LastCandidates) = 2 /\ Len(last.inv.devices) = 1
    /\ CandidateBusIds[1] # NoBusId
    /\ CandidateBusIds[1] # DeviceAfter(LastCandidates[1]).busid

\* C18: after a successful split, the Screen after each cloned Screen S is
\* named as S plus " (2nd)" and refers to S's Monitor; its Device comes
\* right after S's Device, has screen 1, the BusID of S's Device and chip
\* id, chip revision and IRQ -1; S's Device has screen 0; the Monitors are
\* as they were.
C18_CloneOfScreenAndDevice ==
    Succeeded({"split"}) =>
        /\ monitors = last.pre.monitors
        /\ \A i \in 1..Len(screens) :
              (WasThere(screens[i].ptr) /\ Cloned(screens[i].ptr)) =>
                  LET screen0 == screens[i]
                      screen == screens[i + 1]
                      device0 == Deref(devices, screen0.device)
                      device == Deref(devices, screen.device)
                  IN /\ screen.identifier
                           = [screen0.identifier EXCEPT !.suffix = @ + 1]
                     /\ screen.monitor = screen0.monitor
                     /\ IndexOfPtr(devices, screen.device)
                           = IndexOfPtr(devices, screen0.device) + 1
                     /\ ~Live(last.pre.devices, screen.device)
                     /\ device.screen = 1 /\ device0.screen = 0
                     /\ device.busid = device0.busid
                     /\ device.chipid = -1 /\ device.chiprev = -1 /\ device.irq = -1

\* C18 witness: a split cloned two Screens that shared a Monitor and whose
\* Devices had chip ids
C18_Witness ==
    /\ Succeeded({"split"})
    /\ Len(last.pre.screens) = 2 /\ Len(screens) = 4
    /\ Len(monitors) = 1
    /\ \A i \in 1..Len(last.pre.devices) : last.pre.devices[i].chipid = 1

\* candidate k of the last operation is the first of the candidates at its
\* (bus, slot), by the BusIDs the operation met
FirstAtLocation(k) ==
    LET loc == xconfigParsePciBusString(CandidateBusIds[k])
    IN /\ loc.ok
       /\ \A j \in 1..(k - 1) :
              ~SameLoc(loc, xconfigParsePciBusString(CandidateBusIds[j]))

\* C19: after a successful merge each candidate that is the first at its
\* (bus, slot) is still there, its Device has screen -1, and every other
\* Screen that was at that (bus, slot), candidate or not, is gone.
C19_MergeKeepsFirstCandidate ==
    Succeeded({"merge"}) =>
        \A k \in 1..Len(LastCandidates) :
            FirstAtLocation(k) =>
                LET p == LastCandidates[k] IN
                /\ Live(screens, p)
                /\ Live(devices, Deref(last.pre.screens, p).device)
                /\ DeviceAfter(p).screen = -1
                /\ \A i \in 1..Len(last.pre.screens) :
                      LET screen == last.pre.screens[i] IN
                      (screen.ptr # p
                          /\ SameLoc(LocOf(last.pre, screen),
                                     xconfigParsePciBusString(CandidateBusIds[k])))
                          => ~Live(screens, screen.ptr)

\* C19 witness: a merge of two candidates at one (bus, slot), the first of
\* them the original of a split, removed the second
C19_Witness ==
    /\ Succeeded({"merge"})
    /\ Len(LastCandidates) >= 2
    /\ FirstAtLocation(1) /\ ~FirstAtLocation(2)
    /\ xconfigParsePciBusString(CandidateBusIds[2]).ok
    /\ DeviceBefore(LastCandidates[1]).screen = 0
    /\ Live(screens, LastCandidates[1]) /\ ~Live(screens, LastCandidates[2])

\* C20: after a successful populate with the GPUs find_devices() returned
\* there are as many Screens, Devices, Monitors and Adjacencies as GPUs;
\* Screen i has a Device and a Monitor of its own, the Device with the
\* location and name of GPU i, and the adjacency numbered i (from 0).
C20_PopulateOneScreenPerGpu ==
    Succeeded({"populate"}) =>
        LET gpus == last.inv.devices
            N == Len(gpus)
        IN /\ ~last.inv.null /\ N > 0
           /\ Len(screens) = N /\ Len(devices) = N
           /\ Len(monitors) = N /\ Len(adjacencies) = N
           /\ \A i \in 1..N :
                 /\ Live(devices, screens[i].device)
                 /\ Live(monitors, screens[i].monitor)
                 /\ Deref(devices, screens[i].device).busid
                       = <<gpus[i].bus, gpus[i].slot, 0>>
                 /\ Deref(devices, screens[i].device).board = gpus[i].name
                 /\ adjacencies[i].scrnum = i - 1
                 /\ adjacencies[i].screen = screens[i].ptr
           /\ \A i, j \in 1..N :
                 i # j => /\ screens[i].device # screens[j].device
                          /\ screens[i].monitor # screens[j].monitor
                          /\ screens[i].identifier # screens[j].identifier

\* C20 witness: populate with GPUs at buses 2 and 1, in that order, on a
\* document of two Screens on one Device and one Monitor
C20_Witness ==
    /\ Succeeded({"populate"})
    /\ Len(last.pre.screens) = 2 /\ Len(last.pre.devices) = 1
    /\ Len(last.pre.monitors) = 1
    /\ Len(last.inv.devices) = 2
    /\ last.inv.devices[1].bus = 2 /\ last.inv.devices[2].bus = 1

\* the sequence s without its element at position i
Without(s, i) == SubSeq(s, 1, i - 1) \o SubSeq(s, i + 1, Len(s))

\* find_devices() returned the GPUs of an enumeration in which
\* nvCfgIsPrimaryDevice reported the GPUs at the positions P only
Found(P) ==
    /\ last.op = "find_devices" /\ ~last.inv.null
    /\ last.env.primary = P

\* C21 (as claimed): with the GPU at a position i > 0 (here, from 1, i > 1)
\* primary, find_devices() returns that GPU first and then the others in
\* the order of the enumeration; with none primary, the enumeration.
C21_PrimaryFirstRestStable ==
    /\ Found({}) => last.inv.devices = last.env.devs
    /\ \A i \in 2..MaxFindGpus :
          Found({i}) =>
              last.inv.devices = <<last.env.devs[i]>> \o Without(last.env.devs, i)

\* C21 (amended): with the GPU at position i primary, find_devices()
\* returns the enumeration with the GPUs at positions 0 and i exchanged;
\* with none primary, or that at position 0, the enumeration.
C21_PrimaryExchangedWithFirst ==
    /\ Found({}) => last.inv.devices = last.env.devs
    /\ \A i \in 1..MaxFindGpus :
          Found({i}) =>
              last.inv.devices = [last.env.devs EXCEPT ![1] = last.env.devs[i],
                                                       ![i] = last.env.devs[1]]

\* C21 witness: of three GPUs the third was primary
C21_Witness ==
    /\ Found({3})
    /\ Len(last.env.devs) = 3
    /\ last.inv.devices[1] = last.env.devs[3]

C23_ReferencesStayValid ==
    \A i \in 1..Len(screens) :
        /\ Live(devices, screens[i].device)
        /\ Live(monitors, screens[i].monitor)

\* C23 witness: a split cloned a Screen and its Device, the merge after it
\* freed a Screen and a Device, and Screens are left
C23_Witness ==
    /\ before.op = "split" /\ before.ok /\ before.nscreens < Len(last.pre.screens)
    /\ last.op = "merge" /\ last.ok
    /\ Len(screens) < Len(last.pre.screens)
    /\ Len(devices) < Len(last.pre.devices)
    /\ Len(screens) > 0

\* the candidate list of the last merge when its removal loop starts:
\* NULL where the entry was dropped
KeptCandidates ==
    IF last.op # "merge" \/ TargetMissing THEN <<>>
    ELSE LET loc == parse_candidates(last.pre, LastCandidates)
         IN trim_duplicates(limit_to_busids(LastCandidates, loc), loc, 1)

\* C24: merge frees no Screen that is still an entry of its candidate list:
\* no screenlist[i]->device->screen = -1 goes through a freed Screen, and
\* every kept candidate is in config->screens, its Device marked -1, when
\* merge returns.
C24_KeptCandidatesStayLive ==
    last.op = "merge" =>
        /\ ~last.uaf
        /\ \A k \in 1..Len(KeptCandidates) :
              KeptCandidates[k] # NULL =>
                  /\ Live(screens, KeptCandidates[k])
                  /\ Deref(devices, Deref(screens, KeptCandidates[k]).device).screen = -1

\* C24 witness: a merge of two candidates at one bus and slot; the second
\* was dropped from the list and freed by the scan of the first
C24_Witness ==
    /\ last.op = "merge" /\ last.ok
    /\ Len(KeptCandidates) = 2
    /\ KeptCandidates[1] # NULL /\ KeptCandidates[2] = NULL
    /\ LastCandidates[2] # LastCandidates[1]
    /\ ~Live(screens, LastCandidates[2])
    /\ Live(screens, KeptCandidates[1])

\* the pointers of a list, in its order
PtrSeq(list) == [i \in 1..Len(list) |-> list[i].ptr]

\* what is left of the list old is in new, in the order it had
SameOrder(old, new) ==
    LET left(p) == p \in PtrsOf(new) IN PtrSeq(new) = SelectSeq(PtrSeq(old), left)

\* the Screen was, before the last merge, at the bus and slot of a candidate
\* that merge kept
AtKeptLocation(screen) ==
    \E k \in 1..Len(KeptCandidates) :
        /\ KeptCandidates[k] # NULL
        /\ SameLoc(LocOf(last.pre, screen),
                   LocOf(last.pre, Deref(last.pre.screens, KeptCandidates[k])))

====
